---- MODULE Spec2Model ----
(***************************************************************************)
(* Model of the Kinesis -> S3 / DynamoDB ingestion Lambda                  *)
(* (src/lambda_function.py).                                               *)
(*                                                                         *)
(* Text is modelled as a sequence of one-character strings, so that the    *)
(* conversions the code performs (float(), int(), Decimal(str()),          *)
(* str.replace, datetime.fromisoformat, the f-string key format,           *)
(* strftime) are computed character by character.                          *)
(*                                                                         *)
(* A decoded JSON value is a record [ty, s, n, e]:                         *)
(*   ty = "str"    s is the text                                           *)
(*   ty = "int"    n is the (non-negative) integer                         *)
(*   ty = "float"  finite: the value n / 10^e with e >= 1;                 *)
(*                 non-finite: s is "inf" or "nan"                         *)
(*   ty = "bool"   n is 1 (true) or 0 (false)                              *)
(*   ty = "null", ty = "list"                                              *)
(* A decoded JSON object (the payload) is a function from the field names  *)
(* that are present to values.                                             *)
(***************************************************************************)
EXTENDS Integers, Sequences, FiniteSets, TLC

\* ---------------------------------------------------------------- bounds
\* Largest length of the batches that are made of every combination of envelopes.
MaxBatch == 2

\* ------------------------------------------------------------ characters
DigitChars == <<"0", "1", "2", "3", "4", "5", "6", "7", "8", "9">>

IsDigit(c) == \E i \in 1..10 : DigitChars[i] = c

DigitVal(c) == (CHOOSE i \in 1..10 : DigitChars[i] = c) - 1

IsDigits(s) == Len(s) > 0 /\ \A i \in 1..Len(s) : IsDigit(s[i])

RECURSIVE DigitsVal(_)
DigitsVal(s) ==
    IF Len(s) = 0 THEN 0
    ELSE 10 * DigitsVal(SubSeq(s, 1, Len(s) - 1)) + DigitVal(s[Len(s)])

RECURSIVE IntStr(_)
IntStr(n) ==
    IF n < 10 THEN <<DigitChars[n + 1]>>
    ELSE IntStr(n \div 10) \o <<DigitChars[(n % 10) + 1]>>

RECURSIVE Pow10(_)
Pow10(k) == IF k = 0 THEN 1 ELSE 10 * Pow10(k - 1)

\* Python format spec {n:0wd} and strftime's zero-padded fields.
RECURSIVE ZeroPad(_, _)
ZeroPad(s, w) == IF Len(s) >= w THEN s ELSE ZeroPad(<<"0">> \o s, w)

Pad(n, w) == ZeroPad(IntStr(n), w)

IndexOf(s, c) ==
    IF \E i \in 1..Len(s) : s[i] = c
    THEN CHOOSE i \in 1..Len(s) : s[i] = c /\ \A j \in 1..(i - 1) : s[j] # c
    ELSE 0

\* ---------------------------------------------------------------- values
StrV(s) == [ty |-> "str", s |-> s, n |-> 0, e |-> 0]
IntV(n) == [ty |-> "int", s |-> <<>>, n |-> n, e |-> 0]
FloatV(m, e) == [ty |-> "float", s |-> <<>>, n |-> m, e |-> e]
InfV == [ty |-> "float", s |-> <<"i", "n", "f">>, n |-> 0, e |-> 0]
NanV == [ty |-> "float", s |-> <<"n", "a", "n">>, n |-> 0, e |-> 0]
BoolV(b) == [ty |-> "bool", s |-> <<>>, n |-> IF b THEN 1 ELSE 0, e |-> 0]
NullV == [ty |-> "null", s |-> <<>>, n |-> 0, e |-> 0]
ListV == [ty |-> "list", s |-> <<>>, n |-> 0, e |-> 0]

IsFinite(v) == v.ty = "float" /\ v.s = <<>>

\* Field names of a payload.
Has(payload, f) == f \in DOMAIN payload

\* ----------------------------------------------------- Python conversions
\* An optional leading sign removed.
Unsigned(s) ==
    IF Len(s) > 0 /\ s[1] \in {"+", "-"} THEN SubSeq(s, 2, Len(s)) ELSE s

IsNegative(s) == Len(s) > 0 /\ s[1] = "-"

\* digits | digits "." [digits] | "." digits
IsPointLiteral(s) ==
    LET p == IndexOf(s, ".")
        ip == SubSeq(s, 1, p - 1)
        fp == SubSeq(s, p + 1, Len(s))
    IN  IF p = 0 THEN IsDigits(s)
        ELSE /\ ip = <<>> \/ IsDigits(ip)
             /\ fp = <<>> \/ IsDigits(fp)
             /\ Len(ip) + Len(fp) > 0

IsSpecialLiteral(s) == s \in {<<"i", "n", "f">>, <<"n", "a", "n">>}

\* The text float() and Decimal() both accept: [sign] (point literal | inf | nan).
IsNumberText(s) == IsPointLiteral(Unsigned(s)) \/ IsSpecialLiteral(Unsigned(s))

\* The text int() accepts: [sign] digits.
IsIntText(s) == IsDigits(Unsigned(s))

\* float(v): the exception it raises, "none" when it returns.
py_float(v) ==
    CASE v.ty = "str" -> IF IsNumberText(v.s) THEN "none" ELSE "ValueError"
      [] v.ty \in {"int", "float", "bool"} -> "none"
      [] OTHER -> "TypeError"

\* int(v): [exc, n, neg]; floats are truncated toward zero.
py_int(v) ==
    CASE v.ty = "str" ->
            IF IsIntText(v.s)
            THEN [exc |-> "none", n |-> DigitsVal(Unsigned(v.s)),
                  neg |-> IsNegative(v.s) /\ DigitsVal(Unsigned(v.s)) # 0]
            ELSE [exc |-> "ValueError", n |-> 0, neg |-> FALSE]
      [] v.ty \in {"int", "bool"} -> [exc |-> "none", n |-> v.n, neg |-> FALSE]
      [] v.ty = "float" ->
            IF IsFinite(v)
            THEN [exc |-> "none", n |-> v.n \div Pow10(v.e), neg |-> FALSE]
            ELSE IF v = NanV
                 THEN [exc |-> "ValueError", n |-> 0, neg |-> FALSE]
                 ELSE [exc |-> "OverflowError", n |-> 0, neg |-> FALSE]
      [] OTHER -> [exc |-> "TypeError", n |-> 0, neg |-> FALSE]

\* str(v) for a decoded JSON value (also what an f-string inserts).
py_str(v) ==
    CASE v.ty = "str" -> v.s
      [] v.ty = "int" -> IntStr(v.n)
      [] v.ty = "float" ->
            IF IsFinite(v)
            THEN IntStr(v.n \div Pow10(v.e)) \o <<".">>
                     \o Pad(v.n % Pow10(v.e), v.e)
            ELSE v.s
      [] v.ty = "bool" ->
            IF v.n = 1 THEN <<"T", "r", "u", "e">>
            ELSE <<"F", "a", "l", "s", "e">>
      [] v.ty = "null" -> <<"N", "o", "n", "e">>
      [] OTHER -> <<"[", "]">>

\* Decimal(text): [exc, sp, neg, m, e] = (-1)^neg * m / 10^e, or the special sp.
\* The digits are kept as written: no rounding, no binary fraction.
Decimal(s) ==
    LET u == Unsigned(s)
        p == IndexOf(u, ".")
        ip == IF p = 0 THEN u ELSE SubSeq(u, 1, p - 1)
        fp == IF p = 0 THEN <<>> ELSE SubSeq(u, p + 1, Len(u))
    IN  IF IsSpecialLiteral(u)
        THEN [exc |-> "none", sp |-> u, neg |-> IsNegative(s), m |-> 0, e |-> 0]
        ELSE IF IsPointLiteral(u)
        THEN [exc |-> "none", sp |-> <<>>, neg |-> IsNegative(s),
              m |-> DigitsVal(ip \o fp), e |-> Len(fp)]
        ELSE [exc |-> "InvalidOperation", sp |-> <<>>, neg |-> FALSE,
              m |-> 0, e |-> 0]

\* str.replace(old, new) for a one-character old: every occurrence is replaced.
RECURSIVE replace(_, _, _)
replace(s, old, new) ==
    IF Len(s) = 0 THEN <<>>
    ELSE (IF s[1] = old THEN new ELSE <<s[1]>>)
             \o replace(SubSeq(s, 2, Len(s)), old, new)

\* ------------------------------------------------------------- datetimes
IsLeap(y) == (y % 4 = 0 /\ y % 100 # 0) \/ y % 400 = 0

DaysInMonth(y, m) ==
    CASE m \in {4, 6, 9, 11} -> 30
      [] m = 2 -> IF IsLeap(y) THEN 29 ELSE 28
      [] OTHER -> 31

NoDate ==
    [exc |-> "ValueError", year |-> 0, month |-> 0, day |-> 0, hour |-> 0,
     minute |-> 0, second |-> 0, aware |-> FALSE, off |-> 0]

\* Two digits at positions i, i+1 of s, or -1.
TwoDigits(s, i) ==
    IF i + 1 <= Len(s) /\ IsDigit(s[i]) /\ IsDigit(s[i + 1])
    THEN 10 * DigitVal(s[i]) + DigitVal(s[i + 1])
    ELSE -1

\* HH | HH:MM | HH:MM:SS -> <<h, m, s>>, a component -1 when malformed.
ParseHMS(t) ==
    LET h == TwoDigits(t, 1)
        m == IF Len(t) >= 5 THEN (IF t[3] = ":" THEN TwoDigits(t, 4) ELSE -1) ELSE 0
        s == IF Len(t) = 8 THEN (IF t[6] = ":" THEN TwoDigits(t, 7) ELSE -1) ELSE 0
    IN  IF Len(t) \in {2, 5, 8} THEN <<h, m, s>> ELSE <<-1, -1, -1>>

\* datetime.fromisoformat(s) for the extended format
\*   YYYY-MM-DD[*HH[:MM[:SS]][(+|-)HH:MM]]
\* The result keeps the wall-clock fields as written and, when an offset is
\* given, a tzinfo with that offset (off, in minutes); nothing is converted.
fromisoformat(s) ==
    IF Len(s) < 10 \/ Len(s) = 11 THEN NoDate
    ELSE
    LET y == IF IsDigits(SubSeq(s, 1, 4)) THEN DigitsVal(SubSeq(s, 1, 4)) ELSE -1
        mo == TwoDigits(s, 6)
        d == TwoDigits(s, 9)
        dateOk == /\ s[5] = "-" /\ s[8] = "-"
                  /\ y >= 1 /\ mo \in 1..12
                  /\ d >= 1 /\ d <= DaysInMonth(y, mo)
        rest == SubSeq(s, 12, Len(s))
        plus == IndexOf(rest, "+")
        minus == IndexOf(rest, "-")
        tzpos == IF minus # 0 THEN minus ELSE plus
        tpart == IF tzpos = 0 THEN rest ELSE SubSeq(rest, 1, tzpos - 1)
        zpart == IF tzpos = 0 THEN <<>> ELSE SubSeq(rest, tzpos + 1, Len(rest))
        hms == ParseHMS(tpart)
        timeOk == Len(s) = 10
                  \/ (hms[1] \in 0..23 /\ hms[2] \in 0..59 /\ hms[3] \in 0..59)
        zhm == ParseHMS(zpart)
        zoneOk == tzpos = 0
                  \/ (Len(zpart) = 5 /\ zhm[1] \in 0..23 /\ zhm[2] \in 0..59)
        offabs == zhm[1] * 60 + zhm[2]
    IN  IF ~(dateOk /\ timeOk /\ zoneOk) THEN NoDate
        ELSE [exc |-> "none", year |-> y, month |-> mo, day |-> d,
              hour |-> IF Len(s) = 10 THEN 0 ELSE hms[1],
              minute |-> IF Len(s) = 10 THEN 0 ELSE hms[2],
              second |-> IF Len(s) = 10 THEN 0 ELSE hms[3],
              aware |-> Len(s) > 10 /\ tzpos # 0,
              off |-> IF Len(s) = 10 \/ tzpos = 0 THEN 0
                      ELSE IF rest[tzpos] = "-" THEN 0 - offabs ELSE offabs]

\* dt.strftime('%Y%m%d%H%M%S')
strftime(dt) ==
    Pad(dt.year, 4) \o Pad(dt.month, 2) \o Pad(dt.day, 2)
        \o Pad(dt.hour, 2) \o Pad(dt.minute, 2) \o Pad(dt.second, 2)

\* dt.isoformat() of a naive datetime without microseconds.
isoformat(dt) ==
    Pad(dt.year, 4) \o <<"-">> \o Pad(dt.month, 2) \o <<"-">> \o Pad(dt.day, 2)
        \o <<"T">> \o Pad(dt.hour, 2) \o <<":">> \o Pad(dt.minute, 2)
        \o <<":">> \o Pad(dt.second, 2)

\* ------------------------------------------------------------ exceptions
\* The base class of each exception class the code can meet.
ExcBase(c) ==
    CASE c = "JSONDecodeError" -> "ValueError"
      [] c = "binascii.Error" -> "ValueError"
      [] c = "UnicodeDecodeError" -> "ValueError"
      [] c = "KeyError" -> "LookupError"
      [] c = "OverflowError" -> "ArithmeticError"
      [] c = "InvalidOperation" -> "ArithmeticError"
      [] c = "ClientError" -> "Exception"
      [] c \in {"ValueError", "TypeError", "AttributeError", "LookupError",
                "ArithmeticError"} -> "Exception"
      [] OTHER -> "BaseException"

RECURSIVE IsInstance(_, _)
IsInstance(c, cls) ==
    \/ c = cls
    \/ c # "BaseException" /\ IsInstance(ExcBase(c), cls)

\* An except clause with the classes it names catches exception c.
Catches(classes, c) == \E cls \in classes : IsInstance(c, cls)

\* ------------------------------------------------------- validate_record
required_fields == <<"symbol", "price", "timestamp">>

\* [exc, ret]: exc is the exception that leaves validate_record, else "none".
validate_record(payload) ==
    IF \E k \in 1..Len(required_fields) : ~Has(payload, required_fields[k])
    THEN [exc |-> "none", ret |-> FALSE]
    ELSE
    LET fexc == py_float(payload["price"])
        iexc == IF Has(payload, "volume") THEN py_int(payload["volume"]).exc
                ELSE "none"
        raised == IF fexc # "none" THEN fexc ELSE iexc
    IN  IF raised = "none" THEN [exc |-> "none", ret |-> TRUE]
        ELSE IF Catches({"ValueError", "TypeError"}, raised)
        THEN [exc |-> "none", ret |-> FALSE]
        ELSE [exc |-> raised, ret |-> FALSE]

\* ------------------------------------------------ archive_raw_data_to_s3
Text_raw == <<"r", "a", "w">>
Text_prefix ==
    <<"k", "i", "n", "e", "s", "i", "s", "-", "r", "e", "c", "o", "r", "d", "s", "-">>
Text_json == <<".", "j", "s", "o", "n">>

\* The f-string of line 114.
s3_key(symbol, dt) ==
    Text_raw \o <<"/">> \o Pad(dt.year, 4) \o <<"/">> \o Pad(dt.month, 2)
        \o <<"/">> \o Pad(dt.day, 2) \o <<"/">> \o Pad(dt.hour, 2) \o <<"/">>
        \o Text_prefix \o py_str(symbol) \o <<"-">> \o strftime(dt) \o Text_json

\* json.dumps of one decoded JSON value.
JsonText(v) ==
    CASE v.ty = "str" -> <<"\"">> \o v.s \o <<"\"">>
      [] v.ty = "int" -> IntStr(v.n)
      [] v.ty = "float" ->
            IF IsFinite(v) THEN py_str(v)
            ELSE IF v = NanV THEN <<"N", "a", "N">>
            ELSE <<"I", "n", "f", "i", "n", "i", "t", "y">>
      [] v.ty = "bool" ->
            IF v.n = 1 THEN <<"t", "r", "u", "e">>
            ELSE <<"f", "a", "l", "s", "e">>
      [] v.ty = "null" -> <<"n", "u", "l", "l">>
      [] OTHER -> <<"[", "]">>

\* json.dumps(d, default=str) of a dict: the text of each member, by name.
json_dumps(d) == [f \in DOMAIN d |-> JsonText(d[f])]

\* The archiver without its except clause: a storage error leaves it.
archive_raw_data_to_s3_Uncaught(payload, sink_ok) ==
    LET timestamp == payload["timestamp"]
        dt == fromisoformat(replace(timestamp.s, "Z", <<"+", "0", "0", ":", "0", "0">>))
        put == /\ Has(payload, "timestamp") /\ timestamp.ty = "str"
               /\ dt.exc = "none" /\ Has(payload, "symbol")
    IN  [exc |-> IF put /\ ~sink_ok THEN "ClientError" ELSE "none",
         ret |-> put /\ sink_ok,
         put |-> put,
         key |-> IF put THEN s3_key(payload["symbol"], dt) ELSE <<>>,
         body |-> IF put THEN json_dumps(payload) ELSE <<>>]

\* The archiver writing only the fields the canonical record knows.
archive_raw_data_to_s3_KnownFields(payload, sink_ok) ==
    LET timestamp == payload["timestamp"]
        dt == fromisoformat(replace(timestamp.s, "Z", <<"+", "0", "0", ":", "0", "0">>))
        put == /\ Has(payload, "timestamp") /\ timestamp.ty = "str"
               /\ dt.exc = "none" /\ Has(payload, "symbol")
        known == {"symbol", "timestamp", "price", "volume", "exchange"}
    IN  [exc |-> "none",
         ret |-> put /\ sink_ok,
         put |-> put,
         key |-> IF put THEN s3_key(payload["symbol"], dt) ELSE <<>>,
         body |-> IF put
                  THEN json_dumps([f \in DOMAIN payload \cap known |-> payload[f]])
                  ELSE <<>>]

\* The archiver with the exchange in the file name.
archive_raw_data_to_s3_ExchangeKey(payload, sink_ok) ==
    LET timestamp == payload["timestamp"]
        dt == fromisoformat(replace(timestamp.s, "Z", <<"+", "0", "0", ":", "0", "0">>))
        put == /\ Has(payload, "timestamp") /\ timestamp.ty = "str"
               /\ dt.exc = "none" /\ Has(payload, "symbol")
    IN  [exc |-> "none",
         ret |-> put /\ sink_ok,
         put |-> put,
         key |-> IF put
                 THEN s3_key(payload["symbol"], dt)
                          \o (IF Has(payload, "exchange")
                              THEN py_str(payload["exchange"]) ELSE <<>>)
                 ELSE <<>>,
         body |-> IF put THEN json_dumps(payload) ELSE <<>>]

\* [exc, ret, put, key, body]: exc is the exception that leaves the function
\* ("none": it returned ret); put says that s3.put_object was called, with key
\* and body; sink_ok says whether that call completes or raises ClientError.
archive_raw_data_to_s3(payload, sink_ok) ==
    LET timestamp == payload["timestamp"]
        dt == fromisoformat(replace(timestamp.s, "Z", <<"+", "0", "0", ":", "0", "0">>))
        early == IF ~Has(payload, "timestamp") THEN "KeyError"
                 ELSE IF timestamp.ty # "str" THEN "AttributeError"
                 ELSE IF dt.exc # "none" THEN dt.exc
                 ELSE IF ~Has(payload, "symbol") THEN "KeyError"
                 ELSE "none"
        put == early = "none"
        raised == IF put /\ ~sink_ok THEN "ClientError" ELSE early
    IN  [exc |-> IF raised = "none" \/ Catches({"Exception"}, raised)
                 THEN "none" ELSE raised,
         ret |-> raised = "none",
         put |-> put,
         key |-> IF put THEN s3_key(payload["symbol"], dt) ELSE <<>>,
         body |-> IF put THEN json_dumps(payload) ELSE <<>>]

\* -------------------------------------- store_processed_data_in_dynamodb
\* datetime.utcnow(): the clock counts the seconds since 2024-11-01T00:00:00.
utcnow(clock) ==
    [year |-> 2024, month |-> 11, day |-> 1, hour |-> (clock \div 3600) % 24,
     minute |-> (clock \div 60) % 60, second |-> clock % 60]

\* The store writer keeping every field of the payload in the item.
store_processed_data_in_dynamodb_AllFields(payload, clock, sink_ok) ==
    LET processed_at == isoformat(utcnow(clock)) \o <<"Z">>
        price == Decimal(py_str(payload["price"]))
        volume == py_int(payload["volume"])
        processed_data ==
            [f \in DOMAIN payload \cup {"processed_at"} |->
                CASE f = "price" -> price
                  [] f = "processed_at" -> processed_at
                  [] f = "volume" -> volume
                  [] OTHER -> payload[f]]
        put == /\ Has(payload, "symbol") /\ Has(payload, "timestamp")
               /\ Has(payload, "price") /\ price.exc = "none"
               /\ (Has(payload, "volume") => volume.exc = "none")
    IN  [exc |-> "none",
         ret |-> put /\ sink_ok,
         put |-> put,
         item |-> IF put THEN processed_data ELSE <<>>]

\* [exc, ret, put, item]: put says that table.put_item was called with item;
\* sink_ok says whether that call completes or raises ClientError.
store_processed_data_in_dynamodb(payload, clock, sink_ok) ==
    LET processed_at == isoformat(utcnow(clock)) \o <<"Z">>
        price == Decimal(py_str(payload["price"]))
        volume == py_int(payload["volume"])
        fields == {"symbol", "timestamp", "price", "processed_at"}
                      \cup ({"volume", "exchange"} \cap DOMAIN payload)
        processed_data ==
            [f \in fields |->
                CASE f = "price" -> price
                  [] f = "processed_at" -> processed_at
                  [] f = "volume" -> volume
                  [] OTHER -> payload[f]]
        early == IF ~Has(payload, "symbol") \/ ~Has(payload, "timestamp")
                    \/ ~Has(payload, "price") THEN "KeyError"
                 ELSE IF price.exc # "none" THEN price.exc
                 ELSE IF Has(payload, "volume") /\ volume.exc # "none"
                      THEN volume.exc
                 ELSE "none"
        put == early = "none"
        raised == IF put /\ ~sink_ok THEN "ClientError" ELSE early
    IN  [exc |-> IF raised = "none" \/ Catches({"Exception"}, raised)
                 THEN "none" ELSE raised,
         ret |-> raised = "none",
         put |-> put,
         item |-> IF put THEN processed_data ELSE <<>>]

\* The key schema of the table: partition key symbol, sort key timestamp.
TableKey(item) == <<item["symbol"], item["timestamp"]>>

\* A conditional put: an item already under the key is kept.
put_item_KeepFirst(tbl, item) ==
    [k \in DOMAIN tbl \cup {TableKey(item)} |->
        IF k \in DOMAIN tbl THEN tbl[k] ELSE item]

\* An upsert that merges: attributes the new item lacks are kept.
put_item_Merge(tbl, item) ==
    [k \in DOMAIN tbl \cup {TableKey(item)} |->
        IF k = TableKey(item)
        THEN (IF k \in DOMAIN tbl
              THEN [f \in DOMAIN tbl[k] \cup DOMAIN item |->
                       IF f \in DOMAIN item THEN item[f] ELSE tbl[k][f]]
              ELSE item)
        ELSE tbl[k]]

\* table.put_item(Item=item) that completes: the item replaces whatever the
\* table holds under the same key.
put_item(tbl, item) ==
    [k \in DOMAIN tbl \cup {TableKey(item)} |->
        IF k = TableKey(item) THEN item ELSE tbl[k]]

\* s3.put_object(Key=key, Body=body) that completes.
put_object(objs, key, body) ==
    [k \in DOMAIN objs \cup {key} |-> IF k = key THEN body ELSE objs[k]]

\* ---------------------------------------------------------------- inputs
Sym_AAPL == StrV(<<"A", "A", "P", "L">>)
Sym_MSFT == StrV(<<"M", "S", "F", "T">>)
Exch_NASDAQ == StrV(<<"N", "A", "S", "D", "A", "Q">>)

\* 2024-01-01T10:00:00 and 2024-01-01T23:30:00 as written on the wire.
T_10 == isoformat([year |-> 2024, month |-> 1, day |-> 1, hour |-> 10,
                   minute |-> 0, second |-> 0])
T_2330 == isoformat([year |-> 2024, month |-> 1, day |-> 1, hour |-> 23,
                     minute |-> 30, second |-> 0])

TS_Z == StrV(T_10 \o <<"Z">>)
TS_Utc == StrV(T_10 \o <<"+", "0", "0", ":", "0", "0">>)
TS_East == StrV(T_2330 \o <<"-", "0", "5", ":", "0", "0">>)
TS_Naive == StrV(T_10)
TS_Paris == StrV(T_10 \o <<"+", "0", "1", ":", "0", "0">>)
TS_Bad == StrV(<<"n", "o", "t", "-", "a", "-", "d", "a", "t", "e">>)

Price_Text == StrV(<<"1", "5", "2", ".", "3", "4">>)
Price_Text2 == StrV(<<"1", "9", "9", ".", "5">>)
Price_Abc == StrV(<<"a", "b", "c">>)
Price_Num == FloatV(1995, 1)

Vol_Text == StrV(<<"1", "2", "0", "0", "0", "0", "0", "0">>)
Vol_Frac == StrV(<<"1", "2", ".", "5">>)

\* A function from a set of field names, given as <<name, value>> pairs.
Obj(pairs) ==
    [f \in {pr[1] : pr \in pairs} |-> (CHOOSE pr \in pairs : pr[1] = f)[2]]

\* An envelope is what record["kinesis"]["data"] decodes to: enc is "ok" when
\* base64, UTF-8 and JSON decoding give a JSON object (payload), "not_object"
\* when they give another JSON value, and otherwise the step that fails.
Envelope(enc, payload) == [enc |-> enc, payload |-> payload]

NoPayload == [f \in {} |-> NullV]

Quote(pairs) == Envelope("ok", Obj(pairs))

Env_AAPL ==
    Quote({<<"symbol", Sym_AAPL>>, <<"price", Price_Text>>, <<"timestamp", TS_Z>>,
           <<"volume", IntV(100)>>, <<"exchange", Exch_NASDAQ>>,
           <<"source", StrV(<<"x">>)>>})
Env_AAPL_Later ==
    Quote({<<"symbol", Sym_AAPL>>, <<"price", Price_Num>>, <<"timestamp", TS_Z>>})
Env_MSFT_NoPrice ==
    Quote({<<"symbol", Sym_MSFT>>, <<"timestamp", TS_Z>>, <<"volume", IntV(100)>>})
Env_BadTimestamp ==
    Quote({<<"symbol", Sym_AAPL>>, <<"price", Price_Text>>, <<"timestamp", TS_Bad>>})
Env_BoolPrice ==
    Quote({<<"symbol", Sym_MSFT>>, <<"price", BoolV(TRUE)>>, <<"timestamp", TS_Z>>})
Env_InfVolume ==
    Quote({<<"symbol", Sym_MSFT>>, <<"price", Price_Text>>, <<"timestamp", TS_Z>>,
           <<"volume", InfV>>})

\* Quotes of AAPL that differ from Env_AAPL in the timestamp text, or in the
\* exchange only.
Env_AAPL_Utc ==
    Quote({<<"symbol", Sym_AAPL>>, <<"price", Price_Text>>, <<"timestamp", TS_Utc>>})
Env_AAPL_Paris ==
    Quote({<<"symbol", Sym_AAPL>>, <<"price", Price_Text>>, <<"timestamp", TS_Paris>>})
Env_AAPL_NoExchange ==
    Quote({<<"symbol", Sym_AAPL>>, <<"price", Price_Text>>, <<"timestamp", TS_Z>>,
           <<"volume", IntV(100)>>, <<"source", StrV(<<"x">>)>>})

\* The envelopes batches of any length are made of.
CoreEnvelopes ==
    {Envelope("bad_base64", NoPayload), Envelope("bad_json", NoPayload),
     Envelope("not_object", NoPayload),
     Env_AAPL, Env_AAPL_Later, Env_MSFT_NoPrice, Env_BadTimestamp,
     Env_BoolPrice, Env_InfVolume}

\* Every combination of a value, or absence, for each field of a quote.
AbsentV == [ty |-> "absent", s |-> <<>>, n |-> 0, e |-> 0]
Absent == {AbsentV}
FieldChoices ==
    [symbol : Absent \cup {Sym_AAPL},
     price : Absent \cup {Price_Text, Price_Text2, Price_Abc, Price_Num,
                          BoolV(TRUE), NullV},
     timestamp : Absent \cup {TS_Z, TS_Utc, TS_East, TS_Naive, TS_Bad, IntV(1704103200)},
     volume : Absent \cup {IntV(100), Vol_Text, Vol_Frac, FloatV(125, 1), InfV, NanV},
     exchange : Absent \cup {Exch_NASDAQ}]

FieldNames == {"symbol", "price", "timestamp", "volume", "exchange"}

PayloadOf(c) == [f \in {g \in FieldNames : c[g] # AbsentV} |-> c[f]]

QuoteEnvelopes == {Envelope("ok", PayloadOf(c)) : c \in FieldChoices}

\* Longer batches: the end-to-end scenario of a valid quote, a malformed
\* envelope and a quote without price; three records that can fail in three
\* ways; a failure before and after a good record; three quotes with one key;
\* quotes of one symbol that differ in the exchange only or in the way the
\* timestamp is written.
ScenarioBatches ==
    {<<Env_AAPL, Envelope("bad_base64", NoPayload), Env_MSFT_NoPrice>>,
     <<Envelope("bad_json", NoPayload), Env_MSFT_NoPrice, Env_AAPL>>,
     <<Envelope("bad_base64", NoPayload), Env_AAPL, Env_InfVolume>>,
     <<Env_AAPL, Env_AAPL_Later, Env_AAPL>>,
     <<Env_AAPL, Env_AAPL_NoExchange, Env_AAPL_Utc>>,
     <<Env_AAPL, Env_AAPL_Paris>>}

\* The batches an invocation may receive: every batch of core envelopes up to
\* MaxBatch long, every single quote, and the scenarios.
Batches ==
    UNION {[1..n -> CoreEnvelopes] : n \in 0..MaxBatch}
        \cup {<<e>> : e \in QuoteEnvelopes}
        \cup ScenarioBatches

\* ----------------------------------------------------------------- state
VARIABLES
    event,            \* event['Records'], as the envelopes' decode outcomes
    pc,               \* where lambda_handler is
    i,                \* index in event of the record of the current iteration
    payload,          \* the decoded payload of the current record
    archive_success,  \* what archive_raw_data_to_s3 returned for this record
    processed_count,
    failed_count,
    bucket,           \* the archive bucket: key -> body
    table,            \* the DynamoDB table: key -> item
    clock,            \* the wall clock, in seconds
    result,           \* what lambda_handler returned
    log               \* what has happened, in order: [rec, ev, ok]

vars == <<event, pc, i, payload, archive_success, processed_count, failed_count,
          bucket, table, clock, result, log>>

NoResult == [statusCode |-> 0, body |-> [f \in {} |-> <<>>]]

Entry(rec, ev, ok) == [rec |-> rec, ev |-> ev, ok |-> ok]

Init ==
    /\ event \in Batches
    /\ pc = "loop"
    /\ i = 1
    /\ payload = NoPayload
    /\ archive_success = FALSE
    /\ processed_count = 0
    /\ failed_count = 0
    /\ bucket = [k \in {} |-> <<>>]
    /\ table = [k \in {} |-> <<>>]
    /\ clock = 0
    /\ result = NoResult
    /\ log = <<>>

\* The loop body with only its first except clause.
ExceptClauses_JsonOnly == {"JSONDecodeError"}

\* The except clauses of the loop body, lines 62-67.
ExceptClauses == {"JSONDecodeError", "Exception"}

\* The exception the decoding of lines 37-40 raises for an envelope.
DecodeError(env) ==
    CASE env.enc = "ok" -> "none"
      [] env.enc = "bad_base64" -> "binascii.Error"
      [] env.enc = "bad_utf8" -> "UnicodeDecodeError"
      [] env.enc = "bad_json" -> "JSONDecodeError"
      [] env.enc = "not_object" -> "AttributeError"
      [] OTHER -> "KeyError"

\* The except clauses without their failed_count += 1.
Fail_NoCount(exc, entries) ==
    /\ failed_count' = failed_count
    /\ log' = log \o entries
    /\ i' = i + 1
    /\ pc' = "loop"

\* The except clauses ending the loop instead of going on with the next record.
Fail_Break(exc, entries) ==
    /\ failed_count' = failed_count + 1
    /\ log' = log \o entries \o <<Entry(i, "count_failed", FALSE)>>
    /\ i' = Len(event) + 1
    /\ pc' = "loop"

\* Lines 62-67: exception exc was raised in the try block, after entries were
\* logged. When an except clause catches it the record is counted as failed and
\* the loop goes on; otherwise the exception leaves lambda_handler.
Fail(exc, entries) ==
    IF Catches(ExceptClauses, exc)
    THEN /\ failed_count' = failed_count + 1
         /\ log' = log \o entries \o <<Entry(i, "count_failed", FALSE)>>
         /\ i' = i + 1
         /\ pc' = "loop"
    ELSE /\ failed_count' = failed_count
         /\ log' = log \o entries
         /\ i' = i
         /\ pc' = "raised"

\* Lines 34-40: the next record is taken and decoded.
Decode ==
    /\ pc = "loop"
    /\ i <= Len(event)
    /\ LET exc == DecodeError(event[i])
       IN  IF exc = "none"
           THEN /\ payload' = event[i].payload
                /\ pc' = "validate"
                /\ log' = Append(log, Entry(i, "decoded", TRUE))
                /\ UNCHANGED <<i, failed_count>>
           ELSE /\ Fail(exc, <<Entry(i, "decode_error", FALSE)>>)
                /\ UNCHANGED payload
    /\ UNCHANGED <<event, archive_success, processed_count, bucket, table, clock,
                   result>>

\* Lines 44-46 without the continue: the invalid record goes on to the sinks.
Reject_NoContinue ==
    /\ failed_count' = failed_count + 1
    /\ log' = log \o <<Entry(i, "validated", FALSE), Entry(i, "count_failed", FALSE)>>
    /\ i' = i
    /\ pc' = "archive"

\* Lines 44-46: the record is invalid.
Reject ==
    /\ failed_count' = failed_count + 1
    /\ log' = log \o <<Entry(i, "validated", FALSE), Entry(i, "count_failed", FALSE)>>
    /\ i' = i + 1
    /\ pc' = "loop"

\* Lines 42-46.
Validate ==
    /\ pc = "validate"
    /\ \E v \in {validate_record(payload)} :
           IF v.exc # "none"
           THEN Fail(v.exc, <<Entry(i, "validate_raised", FALSE)>>)
           ELSE IF ~v.ret
           THEN Reject
           ELSE /\ log' = Append(log, Entry(i, "validated", TRUE))
                /\ pc' = "archive"
                /\ UNCHANGED <<i, failed_count>>
    /\ UNCHANGED <<event, payload, archive_success, processed_count, bucket, table,
                   clock, result>>

\* Lines 49-51 calling the archiver again when it failed.
Archived_Retry(ret, entries) ==
    /\ archive_success' = ret
    /\ log' = log \o entries \o <<Entry(i, "archive_return", ret)>>
    /\ pc' = IF ret THEN "store" ELSE "archive"
    /\ UNCHANGED <<i, failed_count>>

\* Lines 49-51 giving the record up when the archiver failed.
Archived_Abort(ret, entries) ==
    /\ archive_success' = ret
    /\ log' = log \o entries \o <<Entry(i, "archive_return", ret)>>
                 \o (IF ret THEN <<>> ELSE <<Entry(i, "count_failed", FALSE)>>)
    /\ pc' = IF ret THEN "store" ELSE "loop"
    /\ i' = IF ret THEN i ELSE i + 1
    /\ failed_count' = IF ret THEN failed_count ELSE failed_count + 1

\* Lines 49-51: archive_raw_data_to_s3 returned ret, after entries were logged.
Archived(ret, entries) ==
    /\ archive_success' = ret
    /\ log' = log \o entries \o <<Entry(i, "archive_return", ret)>>
    /\ pc' = "store"
    /\ UNCHANGED <<i, failed_count>>

\* Lines 48-51, with the call of archive_raw_data_to_s3.
Archive ==
    /\ pc = "archive"
    /\ \E sink_ok \in BOOLEAN :
       \E a \in {archive_raw_data_to_s3(payload, sink_ok)} :
         LET calls == <<Entry(i, "archive_call", TRUE)>>
                          \o (IF a.put THEN <<Entry(i, "put_object", sink_ok)>>
                              ELSE <<>>)
         IN  /\ bucket' = IF a.put /\ sink_ok
                          THEN put_object(bucket, a.key, a.body) ELSE bucket
             /\ IF a.exc # "none"
                THEN Fail(a.exc, calls) /\ UNCHANGED archive_success
                ELSE Archived(a.ret, calls)
    /\ UNCHANGED <<event, payload, processed_count, table, clock, result>>

\* Lines 55-60 counting every record that reached the store as processed.
Tally_Always(dynamodb_success) ==
    /\ processed_count' = processed_count + 1
    /\ failed_count' = failed_count

\* Lines 55-60 counting a record as processed only when both sinks succeeded.
Tally_BothSinks(dynamodb_success) ==
    /\ processed_count' =
          IF dynamodb_success /\ archive_success THEN processed_count + 1
          ELSE processed_count
    /\ failed_count' =
          IF dynamodb_success /\ archive_success THEN failed_count
          ELSE failed_count + 1

\* Lines 55-60: store_processed_data_in_dynamodb returned dynamodb_success.
Tally(dynamodb_success) ==
    /\ processed_count' =
          IF dynamodb_success THEN processed_count + 1 ELSE processed_count
    /\ failed_count' = IF dynamodb_success THEN failed_count ELSE failed_count + 1

\* Lines 53-60, with the call of store_processed_data_in_dynamodb.
Store ==
    /\ pc = "store"
    /\ \E sink_ok \in BOOLEAN :
       \E s \in {store_processed_data_in_dynamodb(payload, clock, sink_ok)} :
         LET calls == <<Entry(i, "store_call", TRUE)>>
                          \o (IF s.put THEN <<Entry(i, "put_item", sink_ok)>>
                              ELSE <<>>)
         IN  /\ table' = IF s.put /\ sink_ok THEN put_item(table, s.item) ELSE table
             /\ IF s.exc # "none"
                THEN /\ Fail(s.exc, calls)
                     /\ UNCHANGED processed_count
                ELSE /\ Tally(s.ret)
                     /\ log' = log \o calls
                                   \o <<Entry(i, "store_return", s.ret),
                                        Entry(i, IF processed_count' > processed_count
                                                 THEN "count_processed"
                                                 ELSE "count_failed", s.ret)>>
                     /\ i' = i + 1
                     /\ pc' = "loop"
    /\ clock' = clock + 1
    /\ UNCHANGED <<event, payload, archive_success, bucket, result>>

Text_message ==
    <<"P", "r", "o", "c", "e", "s", "s", "i", "n", "g", " ",
      "c", "o", "m", "p", "l", "e", "t", "e">>

\* Lines 69-78.
Return ==
    /\ pc = "loop"
    /\ i > Len(event)
    /\ result' =
          [statusCode |-> 200,
           body |-> json_dumps(
               [message |-> StrV(Text_message),
                processed_count |-> IntV(processed_count),
                failed_count |-> IntV(failed_count)])]
    /\ pc' = "returned"
    /\ UNCHANGED <<event, i, payload, archive_success, processed_count,
                   failed_count, bucket, table, clock, log>>

Next == Decode \/ Validate \/ Archive \/ Store \/ Return

Spec == Init /\ [][Next]_vars

\* ------------------------------------------------------ reading the log
Records == 1..Len(event)

\* Entry (ev, ok) was logged for record r.
Logged(r, ev, ok) == \E k \in 1..Len(log) : log[k] = Entry(r, ev, ok)

Happened(r, ev) == Logged(r, ev, TRUE) \/ Logged(r, ev, FALSE)

\* How many entries ev were logged for record r.
Times(r, ev) == Cardinality({k \in 1..Len(log) : log[k].rec = r /\ log[k].ev = ev})

\* Record r has been handled: the loop has left it behind.
Handled(r) == r < i

SinkEvents == {"archive_call", "put_object", "store_call", "put_item"}

\* ---------------------------------------------------------------- claims
WellFormedResult ==
    /\ result.statusCode = 200
    /\ DOMAIN result.body = {"message", "processed_count", "failed_count"}
    /\ result.body["message"] = <<"\"">> \o Text_message \o <<"\"">>
    /\ result.body["processed_count"] = IntStr(processed_count)
    /\ result.body["failed_count"] = IntStr(failed_count)

\* C1: whatever the envelopes and whatever the sinks do, no exception leaves
\* lambda_handler; it terminates (it is always at a position whose step is
\* enabled or has returned, and every step takes it nearer to the return) and
\* returns statusCode 200
\* with a body made of the message "Processing complete", processed_count and
\* failed_count.
\* The steps lambda_handler has left at most: four for each record not yet
\* handled, less those taken for the current one, and the return.
StepsLeft ==
    IF pc = "returned" THEN 0
    ELSE 1 + 4 * (Len(event) + 1 - i)
           + (CASE pc = "loop" -> 3 [] pc = "validate" -> 2
                [] pc = "archive" -> 1 [] OTHER -> 0)

C1_AlwaysReturns200 ==
    /\ [](pc # "raised")
    /\ [](pc = "returned" => WellFormedResult)
    /\ [](pc \in {"loop", "validate", "archive", "store", "returned"})
    /\ [][StepsLeft' < StepsLeft /\ StepsLeft' >= 0]_vars

\* A batch of three records that all failed, in three different ways, returned.
C1_Witness ==
    /\ pc = "returned"
    /\ Len(event) = 3
    /\ failed_count = 3
    /\ processed_count = 0
    /\ Logged(1, "decode_error", FALSE)
    /\ Logged(2, "validated", FALSE)
    /\ Logged(3, "put_item", FALSE)
    /\ result.statusCode = 200

\* C2: processed_count + failed_count is the number of records handled so
\* far, and the number of envelopes on return; every handled record incremented
\* exactly one counter exactly once; a valid quote, a malformed envelope and a
\* quote without price give 1 and 2 (the store taking the valid quote).
C2_Example ==
    (/\ pc = "returned"
     /\ event = <<Env_AAPL, Envelope("bad_base64", NoPayload), Env_MSFT_NoPrice>>
     /\ Logged(1, "put_item", TRUE))
        => (processed_count = 1 /\ failed_count = 2)

C2_ExactAccounting ==
    /\ processed_count + failed_count = i - 1
    /\ pc = "returned" => processed_count + failed_count = Len(event)
    /\ \A r \in Records :
          Times(r, "count_processed") + Times(r, "count_failed")
              = IF Handled(r) THEN 1 ELSE 0
    /\ processed_count = Cardinality({r \in Records : Happened(r, "count_processed")})
    /\ C2_Example

C2_Witness ==
    /\ pc = "returned"
    /\ event = <<Env_AAPL, Envelope("bad_base64", NoPayload), Env_MSFT_NoPrice>>
    /\ processed_count = 1
    /\ failed_count = 2

\* C3: a record that decoded and passed validation is counted as processed
\* iff the store writer returned true and as failed otherwise; what the
\* archiver returned changes neither counter.
C3_StoreDecidesTally ==
    /\ \A r \in Records :
          (Logged(r, "validated", TRUE) /\ Handled(r)) =>
              /\ Happened(r, "count_processed") <=> Logged(r, "store_return", TRUE)
              /\ Happened(r, "count_failed") <=> Logged(r, "store_return", FALSE)
    /\ pc = "store" =>
          processed_count + failed_count = i - 1

\* The archiver returned false, the store writer true: counted as processed.
C3_Witness ==
    \E r \in Records :
        /\ Logged(r, "archive_return", FALSE)
        /\ Logged(r, "store_return", TRUE)
        /\ Logged(r, "count_processed", TRUE)

\* C4: a record that fails decoding, parsing or validation reaches no sink:
\* neither archiver nor store writer is called for it, it is counted as failed
\* once, and the loop moves on to the next record.
FailedEarly(r) ==
    \/ Logged(r, "decode_error", FALSE)
    \/ Logged(r, "validated", FALSE)
    \/ Logged(r, "validate_raised", FALSE)

C4_RejectedReachesNoSink ==
    \A r \in Records :
        FailedEarly(r) =>
            /\ \A ev \in SinkEvents : ~Happened(r, ev)
            /\ Times(r, "count_failed") = 1
            /\ ~Happened(r, "count_processed")
            /\ Handled(r)

\* A record failed validation, and the next record went on to the store.
C4_Witness ==
    \E r \in Records :
        /\ Logged(r, "validated", FALSE)
        /\ Logged(r + 1, "put_item", TRUE)
        /\ \E q \in Records : Logged(q, "decode_error", FALSE)

\* The timestamp text as archive_raw_data_to_s3 parses it.
Parsed(v) == fromisoformat(replace(v.s, "Z", <<"+", "0", "0", ":", "0", "0">>))

IsIso8601(v) == v.ty = "str" /\ Parsed(v).exc = "none"

\* The data model's valid Quote Event.
ValidQuote(p) ==
    /\ Has(p, "symbol") /\ Has(p, "price") /\ Has(p, "timestamp")
    /\ p["symbol"].ty = "str"
    /\ py_float(p["price"]) = "none"
    /\ IsIso8601(p["timestamp"])

\* C5: every record counted as processed or written to the table is a valid
\* Quote Event (symbol, price, timestamp present, price a real number,
\* timestamp an ISO-8601 string), and every decoded record that is not one is
\* counted as failed.
C5_OnlyValidQuotesProcessed ==
    \A r \in Records :
        /\ (Happened(r, "count_processed") \/ Logged(r, "put_item", TRUE))
               => ValidQuote(event[r].payload)
        /\ (Handled(r) /\ ~ValidQuote(event[r].payload))
               => Happened(r, "count_failed")

\* Where in the log the first entry ev of record r is.
Pos(r, ev) ==
    CHOOSE k \in 1..Len(log) :
        /\ log[k].rec = r /\ log[k].ev = ev
        /\ \A j \in 1..(k - 1) : ~(log[j].rec = r /\ log[j].ev = ev)

\* C6: for every validated record the store writer is called, after the
\* archiver has returned and whatever the archiver returned.
C6_StoreFollowsArchive ==
    \A r \in Records :
        Logged(r, "validated", TRUE) =>
            /\ Happened(r, "store_call") =>
                  /\ Happened(r, "archive_return")
                  /\ Pos(r, "archive_return") < Pos(r, "store_call")
            /\ (Happened(r, "archive_return") /\ ~Happened(r, "store_call"))
                  => (i = r /\ pc = "store")
            /\ Handled(r) => Happened(r, "store_call")

\* The archiver failed on an unparseable timestamp for one record and on a
\* storage error for another; the upsert was made for both.
C6_Witness ==
    \E r, q \in Records :
        /\ Logged(r, "archive_return", FALSE) /\ ~Happened(r, "put_object")
        /\ Logged(r, "put_item", TRUE)
        /\ Logged(q, "put_object", FALSE) /\ Logged(q, "archive_return", FALSE)
        /\ Logged(q, "put_item", TRUE)

\* What a record alone comes to, given what the store sink does with it.
Alone(env, store_sink_ok) ==
    IF DecodeError(env) # "none" THEN "failed"
    ELSE IF validate_record(env.payload).exc # "none"
            \/ ~validate_record(env.payload).ret THEN "failed"
    ELSE IF store_processed_data_in_dynamodb(env.payload, 0, store_sink_ok).ret
    THEN "processed"
    ELSE "failed"

\* The tally of records lo..hi, each taken alone with its own sink outcome.
TallyAlone(lo, hi, outcome) ==
    Cardinality({r \in lo..hi : Alone(event[r], Logged(r, "put_item", TRUE)) = outcome})

Counted(r) == Happened(r, "count_processed") \/ Happened(r, "count_failed")

\* C7: records are handled one at a time in the order delivered; a failure
\* at one record does not keep the later ones from being handled; the counter
\* a record increments depends on its own envelope and sink results only, so
\* the tally of a batch is the sum of the tallies of its two parts, wherever
\* it is split.
C7_RecordsIsolated ==
    /\ \A k \in 1..(Len(log) - 1) : log[k].rec <= log[k + 1].rec
    /\ \A r \in Records : Counted(r) <=> Handled(r)
    /\ pc = "returned" => \A r \in Records : Counted(r)
    /\ \A r \in Records :
          Counted(r) =>
              (Happened(r, "count_processed")
                  <=> Alone(event[r], Logged(r, "put_item", TRUE)) = "processed")
    /\ \A k \in 0..(i - 1) :
          /\ processed_count
                 = TallyAlone(1, k, "processed") + TallyAlone(k + 1, i - 1, "processed")
          /\ failed_count
                 = TallyAlone(1, k, "failed") + TallyAlone(k + 1, i - 1, "failed")

\* A batch returned whose first record failed to decode, whose second was
\* stored and whose third made validate_record raise.
C7_Witness ==
    /\ pc = "returned"
    /\ Len(event) = 3
    /\ Logged(1, "decode_error", FALSE)
    /\ Logged(2, "count_processed", TRUE)
    /\ Logged(3, "validate_raised", FALSE)
    /\ processed_count = 1
    /\ failed_count = 2

\* The records whose upsert completed.
Stored == {r \in Records : Logged(r, "put_item", TRUE)}

\* How many times the store writer was called before it was for record r.
StoreCallsBefore(r) ==
    Cardinality({k \in 1..Len(log) : log[k].ev = "store_call" /\ log[k].rec < r})

\* The item the store writer built for record r.
ItemOf(r) ==
    store_processed_data_in_dynamodb(event[r].payload, StoreCallsBefore(r), TRUE).item

\* C8: the table holds, under each key, exactly the item built from the most
\* recent record stored under that key: no attribute of an earlier item
\* survives, and an upsert that failed changed nothing.
C8_LastWriteWins ==
    /\ DOMAIN table = {TableKey(ItemOf(r)) : r \in Stored}
    /\ \A r \in Stored :
          (\A q \in Stored : q > r => TableKey(ItemOf(q)) # TableKey(ItemOf(r)))
              => table[TableKey(ItemOf(r))] = ItemOf(r)

\* An item with volume and exchange was overwritten by one without them, and
\* a later upsert under the same key failed.
C8_Witness ==
    \E r, q, f \in Records :
        /\ r < q /\ q < f
        /\ r \in Stored /\ q \in Stored
        /\ Logged(f, "put_item", FALSE)
        /\ TableKey(ItemOf(r)) = TableKey(ItemOf(q))
        /\ event[f].payload = event[r].payload
        /\ "volume" \in DOMAIN ItemOf(r)
        /\ "volume" \notin DOMAIN table[TableKey(ItemOf(q))]
        /\ "exchange" \notin DOMAIN table[TableKey(ItemOf(q))]

\* The payloads the validator is specified to reject.
ShouldReject(p) ==
    \/ ~Has(p, "symbol") \/ ~Has(p, "price") \/ ~Has(p, "timestamp")
    \/ py_float(p["price"]) # "none"
    \/ Has(p, "volume") /\ py_int(p["volume"]).exc # "none"

\* C9: validate_record returns false iff symbol, price or timestamp is
\* absent, or price is not a real number, or volume is present and not an
\* integer; it returns true for every other payload.
C9_ValidateIff ==
    \A r \in Records :
        (Happened(r, "decoded") /\ (r < i \/ pc # "validate")) =>
            /\ Logged(r, "validated", FALSE) <=> ShouldReject(event[r].payload)
            /\ Logged(r, "validated", TRUE) <=> ~ShouldReject(event[r].payload)

NextDay(dt) ==
    IF dt.day < DaysInMonth(dt.year, dt.month)
    THEN [dt EXCEPT !.day = dt.day + 1]
    ELSE IF dt.month < 12 THEN [dt EXCEPT !.day = 1, !.month = dt.month + 1]
    ELSE [dt EXCEPT !.day = 1, !.month = 1, !.year = dt.year + 1]

PrevDay(dt) ==
    IF dt.day > 1 THEN [dt EXCEPT !.day = dt.day - 1]
    ELSE IF dt.month > 1
    THEN [dt EXCEPT !.day = DaysInMonth(dt.year, dt.month - 1),
                    !.month = dt.month - 1]
    ELSE [dt EXCEPT !.day = 31, !.month = 12, !.year = dt.year - 1]

\* The UTC calendar fields of the instant dt denotes (dt.astimezone(utc)); a
\* datetime without offset is taken as UTC.
ToUtc(dt) ==
    LET m == dt.hour * 60 + dt.minute - dt.off
        day == IF m < 0 THEN PrevDay(dt) ELSE IF m >= 1440 THEN NextDay(dt) ELSE dt
        mm == IF m < 0 THEN m + 1440 ELSE IF m >= 1440 THEN m - 1440 ELSE m
    IN  [day EXCEPT !.hour = mm \div 60, !.minute = mm % 60, !.off = 0]

\* C10: the partition and the file name of the archive key are the UTC
\* calendar fields of the instant the payload timestamp denotes, also when
\* the timestamp carries a non-zero offset.
C10_KeyUsesUtcFields ==
    \A r \in Records :
        Logged(r, "put_object", TRUE) =>
            s3_key(event[r].payload["symbol"],
                   ToUtc(Parsed(event[r].payload["timestamp"]))) \in DOMAIN bucket

\* The records whose archive object was written.
Archived_Records == {r \in Records : Logged(r, "put_object", TRUE)}

\* The key archive_raw_data_to_s3 derives for record r.
ArchiveKey(r) == archive_raw_data_to_s3(event[r].payload, TRUE).key

\* The second, in UTC, of the instant the timestamp of record r denotes.
UtcSecond(r) ==
    LET u == ToUtc(Parsed(event[r].payload["timestamp"]))
    IN  <<u.year, u.month, u.day, u.hour, u.minute, u.second>>

\* C11: two archived payloads of one symbol whose timestamps denote instants
\* in different seconds get different keys, so both objects are in the bucket.
C11_DistinctSecondsDistinctKeys ==
    \A r, q \in Archived_Records :
        (/\ event[r].payload["symbol"] = event[q].payload["symbol"]
         /\ UtcSecond(r) # UtcSecond(q))
            => /\ ArchiveKey(r) # ArchiveKey(q)
               /\ {ArchiveKey(r), ArchiveKey(q)} \subseteq DOMAIN bucket

\* The timestamp text of record r with a Z written as +00:00.
NormalTimestamp(r) ==
    replace(event[r].payload["timestamp"].s, "Z", <<"+", "0", "0", ":", "0", "0">>)

\* C12: the archive key depends on symbol and timestamp only: the objects in
\* the bucket are under the keys derived for the archived records, and two
\* archived records with the same symbol and the same timestamp, a final Z and
\* +00:00 taken as the same, have the same key whatever their other fields.
C12_KeyOfSymbolAndTimestamp ==
    /\ DOMAIN bucket = {ArchiveKey(r) : r \in Archived_Records}
    /\ \A r, q \in Records :
          (/\ Happened(r, "put_object") /\ Happened(q, "put_object")
           /\ event[r].payload["symbol"] = event[q].payload["symbol"]
           /\ NormalTimestamp(r) = NormalTimestamp(q))
              => ArchiveKey(r) = ArchiveKey(q)

\* Three quotes were archived, the second differing from the first in the
\* exchange only, the third written with +00:00 for Z: the bucket has one key.
C12_Witness ==
    /\ event = <<Env_AAPL, Env_AAPL_NoExchange, Env_AAPL_Utc>>
    /\ Archived_Records = {1, 2, 3}
    /\ event[1].payload["timestamp"] # event[3].payload["timestamp"]
    /\ Cardinality(DOMAIN bucket) = 1

\* The record whose upsert was the last to complete under a key of the table.
LastStored(key) ==
    CHOOSE r \in Stored :
        /\ TableKey(ItemOf(r)) = key
        /\ \A q \in Stored : q > r => TableKey(ItemOf(q)) # key

\* C13: an item of the table has the attributes symbol, timestamp, price and
\* processed_at, volume iff the payload has it (as the integer it denotes) and
\* exchange iff the payload has it (unchanged); its timestamp is the payload's
\* text as received; no other field of the payload is in it.
C13_ItemShape ==
    \A key \in DOMAIN table :
        \E p \in {event[LastStored(key)].payload} :
        \E it \in {table[key]} :
            /\ DOMAIN it = {"symbol", "timestamp", "price", "processed_at"}
                               \cup ({"volume", "exchange"} \cap DOMAIN p)
            /\ it["symbol"] = p["symbol"]
            /\ it["timestamp"] = p["timestamp"]
            /\ it["price"] = Decimal(py_str(p["price"]))
            /\ it["price"].exc = "none"
            /\ Has(p, "volume") =>
                  (it["volume"].exc = "none" /\ it["volume"] = py_int(p["volume"]))
            /\ Has(p, "exchange") => it["exchange"] = p["exchange"]

\* The item of a quote with volume, exchange and an unknown field was stored:
\* volume is the integer 100, the timestamp still ends in Z, the unknown field
\* is not in the item.
C13_Witness ==
    \E r \in Stored :
        /\ event[r] = Env_AAPL
        /\ Has(event[r].payload, "source")
        /\ TableKey(ItemOf(r)) \in DOMAIN table
        /\ table[TableKey(ItemOf(r))]["volume"].n = 100
        /\ table[TableKey(ItemOf(r))]["timestamp"] = TS_Z
        /\ "source" \notin DOMAIN table[TableKey(ItemOf(r))]

\* The record whose archive put was the last to complete under a key.
LastArchived(key) ==
    CHOOSE r \in Archived_Records :
        /\ ArchiveKey(r) = key
        /\ \A q \in Archived_Records : q > r => ArchiveKey(q) # key

\* C14: an archive object holds the whole decoded payload: every field of the
\* payload, unknown ones included, is in the body with the JSON text of its
\* value, and nothing else is; validation has left the payload as decoded.
C14_ArchiveHoldsWholePayload ==
    /\ \A key \in DOMAIN bucket :
          \E p \in {event[LastArchived(key)].payload} :
              /\ DOMAIN bucket[key] = DOMAIN p
              /\ \A f \in DOMAIN p : bucket[key][f] = JsonText(p[f])
    /\ pc \in {"archive", "store"} => payload = event[i].payload

\* A quote with an unknown field was archived with it.
C14_Witness ==
    \E r \in Archived_Records :
        /\ event[r] = Env_AAPL
        /\ bucket[ArchiveKey(r)]["source"] = <<"\"", "x", "\"">>
        /\ bucket[ArchiveKey(r)]["volume"] = <<"1", "0", "0">>
        /\ Logged(r, "validated", TRUE)

\* The processed_at the store writer computes when called for record r.
ProcessedAt(r) == isoformat(utcnow(StoreCallsBefore(r))) \o <<"Z">>

\* C15: when the same payload has been stored twice, the table holds one
\* item under its key; every attribute but processed_at is as the first
\* store wrote it, and processed_at is the time of the most recent store.
C15_IdempotentButProcessedAt ==
    \A r, q \in Stored :
        (/\ r < q
         /\ event[r].payload = event[q].payload
         /\ q = LastStored(TableKey(ItemOf(q))))
            => \E it \in {table[TableKey(ItemOf(r))]} :
                  /\ DOMAIN it = DOMAIN ItemOf(r)
                  /\ \A f \in DOMAIN it \ {"processed_at"} : it[f] = ItemOf(r)[f]
                  /\ it["processed_at"] = ProcessedAt(q)

\* The same quote was stored twice in a batch: one item, stamped by the
\* second store.
C15_Witness ==
    /\ event = <<Env_AAPL, Env_AAPL>>
    /\ Stored = {1, 2}
    /\ Cardinality(DOMAIN table) = 1
    /\ table[TableKey(ItemOf(1))]["processed_at"] = ProcessedAt(2)
    /\ ProcessedAt(2) # ProcessedAt(1)

\* How many entries ev the log has.
Total(ev) == Cardinality({k \in 1..Len(log) : log[k].ev = ev})

\* C16: no retry: a record causes at most one put_object call and at most
\* one put_item call, whatever they return, so there are at most as many
\* calls of each kind as records in the batch.
C16_NoRetry ==
    /\ \A r \in Records : \A ev \in SinkEvents : Times(r, ev) <= 1
    /\ Total("put_object") <= Len(event)
    /\ Total("put_item") <= Len(event)

\* Both sink calls of a record failed, and each was made once.
C16_Witness ==
    \E r \in Records :
        /\ Handled(r)
        /\ Logged(r, "put_object", FALSE)
        /\ Logged(r, "put_item", FALSE)
        /\ Times(r, "put_object") = 1
        /\ Times(r, "put_item") = 1

\* C17: the archiver fails closed: it always returns; on a timestamp that is
\* not ISO-8601 it returns false and no put is made; it returns true only
\* when the put completed; a put that failed makes it return false.
C17_ArchiverFailsClosed ==
    /\ DOMAIN bucket = {ArchiveKey(q) : q \in Archived_Records}
    /\ \A r \in Records :
        Happened(r, "archive_call") =>
            /\ Happened(r, "archive_return")
            /\ (~IsIso8601(event[r].payload["timestamp"])) =>
                  (~Happened(r, "put_object") /\ Logged(r, "archive_return", FALSE))
            /\ Logged(r, "archive_return", TRUE) => Logged(r, "put_object", TRUE)
            /\ Logged(r, "put_object", FALSE) => Logged(r, "archive_return", FALSE)

\* The archiver returned false for a record with an unparseable timestamp,
\* without a put, and for a record whose put failed; the bucket is empty.
C17_Witness ==
    \E r, q \in Records :
        /\ Logged(r, "archive_return", FALSE)
        /\ ~IsIso8601(event[r].payload["timestamp"])
        /\ Total("put_object") = 1
        /\ Logged(q, "put_object", FALSE)
        /\ Logged(q, "archive_return", FALSE)
        /\ DOMAIN bucket = {}

C19_ValidatedAlwaysConverts ==
    \A r \in Records :
        (Logged(r, "validated", TRUE) /\ Logged(r, "store_return", FALSE))
            => Logged(r, "put_item", FALSE)

====
